---- MODULE Spec2Model ----
(***************************************************************************)
(* A model of UtilCpp's error abstraction (Error.ipp): the IError          *)
(* capability interface, the default Error value with its builder          *)
(* mutators, the ErrorConcept acceptance predicate, the WrappingError      *)
(* adapter, the shared-ownership ErrorWrapper handle and the factories     *)
(* MakeOptionalError / MakeResultError / MakeError.                        *)
(*                                                                         *)
(* Objects live at addresses.  A caller's named error value lives at a     *)
(* stack address; the value a WrappingError owns (its member _err) lives   *)
(* at the heap address of the payload that holds it.                       *)
(***************************************************************************)
EXTENDS Integers, FiniteSets, Sequences, TLC

VARIABLES mem, heap, hnd, snap, last, illFormed

vars == <<mem, heap, hnd, snap, last, illFormed>>

(***************************************************************************)
(* Bounds and input domains.                                               *)
(***************************************************************************)
\* Number of ErrorWrapper objects alive at one time.
MaxHandles == 3

\* Number of ErrorWrapper objects alive at one time where the wrapped value's
\* strings vary.
MaxErasedHandles == 2

\* The strings callers pass in.
Str == {"", "disk full", "errno=28"}

\* Number of payloads allocated at one time.
MaxPayloads == 2

\* Number of payloads allocated at one time where the wrapped value's strings vary.
MaxErased == 1

\* The strings the erasure scenario stores in each field.
Types == {"", "io"}
Details == {"", "disk full"}
Infos == {"", "errno=28"}

Handles == 1..MaxHandles
Payloads == 1..MaxPayloads
Erased == 1..MaxErased
ErasedHandles == 1..MaxErasedHandles
Null == 0

StackAddr(i) == [seg |-> "stack", ix |-> i]
HeapAddr(p) == [seg |-> "heap", ix |-> p]
NoAddr == [seg |-> "none", ix |-> 0]

\* The caller's named error values.
E1 == StackAddr(1)
E2 == StackAddr(2)
Vars == {E1, E2}
Addrs == Vars \cup {HeapAddr(p) : p \in Payloads}

(***************************************************************************)
(* Types.  Error is the library's class; the others are the kinds of type  *)
(* a caller can write against it: MyError derives from Error and adds      *)
(* nothing, TaggedError derives from Error and overrides GetClassId with   *)
(* its own static Id, Duck exposes the five operations and derives from    *)
(* nothing.                                                                *)
(***************************************************************************)
Classes == {"Error", "MyError", "TaggedError", "Duck"}

Base(c) ==
    CASE c = "Error" -> "IError"
      [] c = "MyError" -> "Error"
      [] c = "TaggedError" -> "Error"
      [] OTHER -> "none"

RECURSIVE Ancestors(_)
Ancestors(c) == IF c = "none" THEN {} ELSE {c} \cup Ancestors(Base(c))

\* IError declares pure virtual functions, so it is an abstract class.
IsAbstract(c) == c = "IError"

\* The types that expose the five named operations.
HasFiveOperations(c) == c \in Classes

derived_from(c, b) == b \in Ancestors(c)

\* std::is_convertible_v<From, To>: "To f() { return declval<From>(); }" is
\* well formed.  No function can return an abstract class type.
is_convertible_v(c, b) == ~IsAbstract(b) /\ b \in Ancestors(c)

ErrorConcept(c) == derived_from(c, "IError") \/ is_convertible_v(c, "IError")

\* The classes that declare GetClassId themselves, each over its own Id.
DeclaresGetClassId(c) == c \in {"Error", "TaggedError", "Duck"}

RECURSIVE FinalOverrider(_)
FinalOverrider(c) ==
    IF c = "none" \/ DeclaresGetClassId(c) THEN c ELSE FinalOverrider(Base(c))

\* reinterpret_cast<uintptr_t>(Id): the address of the static function Id of
\* the class whose GetClassId runs.
IdAddress(c) == <<c, "Id">>

(***************************************************************************)
(* Error: the value and its operations.                                    *)
(***************************************************************************)
NoObject == [cls |-> "none", _type |-> "", _details |-> "", _devInfo |-> ""]

Constructed(o) == o.cls # "none"

Error_Default(c) == [cls |-> c, _type |-> "", _details |-> "", _devInfo |-> ""]

Error_Details(c, details) ==
    [cls |-> c, _type |-> "", _details |-> details, _devInfo |-> ""]

\* The two-argument constructor with its member initialisers crossed.
Error_TypeDetailsCrossed(c, type, details) ==
    [cls |-> c, _type |-> details, _details |-> type, _devInfo |-> ""]

Error_TypeDetails(c, type, details) ==
    [cls |-> c, _type |-> type, _details |-> details, _devInfo |-> ""]

Error_Copy(o) ==
    [cls |-> o.cls, _type |-> o._type, _details |-> o._details, _devInfo |-> o._devInfo]

\* What a moved-from std::string may hold: the standard leaves it valid but
\* unspecified; implementations leave it empty or (small strings) unchanged.
MovedFromStr(s) == {"", s}

MovedFrom(o) ==
    {[cls |-> o.cls, _type |-> t, _details |-> d, _devInfo |-> i] :
        t \in MovedFromStr(o._type), d \in MovedFromStr(o._details),
        i \in MovedFromStr(o._devInfo)}

Error_GetClassId(o) == IdAddress(FinalOverrider(o.cls))
Error_ToString(o) == o._details
Error_GetType(o) == o._type
Error_GetDetails(o) == o._details
Error_GetInfo(o) == o._devInfo

\* WithDetails writing the neighbouring member.
WithDetailsWrongMember(o, details) == [o EXCEPT !._devInfo = details]

WithDetails(o, details) == [o EXCEPT !._details = details]
WithInfo(o, info) == [o EXCEPT !._devInfo = info]
\* "return *this": the address the mutator was called on.
ReturnThis(this) == this

\* The five accessors' values, as one record.
Undefined == [id |-> <<"undefined", "Id">>, str |-> "?", type |-> "?", details |-> "?", info |-> "?"]

ValueAcc(o) ==
    [id |-> Error_GetClassId(o), str |-> Error_ToString(o), type |-> Error_GetType(o),
     details |-> Error_GetDetails(o), info |-> Error_GetInfo(o)]

(***************************************************************************)
(* The record of the most recent operation: its name, the object it was    *)
(* called on, its arguments, the object's value before it, what it         *)
(* returned.                                                               *)
(***************************************************************************)
NoLast ==
    [op |-> "none", self |-> NoAddr, a1 |-> "", a2 |-> "", pre |-> NoObject,
     ret |-> NoAddr, h |-> Null, src |-> Null, p |-> Null, acc |-> Undefined,
     allocated |-> 0, has_value |-> FALSE]

Init ==
    /\ mem = [a \in Addrs |-> NoObject]
    /\ heap = [p \in Payloads |-> [alloc |-> FALSE, _err |-> NoAddr, use_count |-> 0, released |-> 0]]
    /\ hnd = [h \in Handles |-> [st |-> "free", _ptr |-> Null, wasLast |-> FALSE,
                                 moved |-> FALSE]]
    /\ snap = [h \in Handles |-> Undefined]
    /\ last = NoLast
    /\ illFormed = {}

(***************************************************************************)
(* Operations on a caller's error value.                                   *)
(***************************************************************************)
ConstructDefault(v, c) ==
    /\ ~Constructed(mem[v])
    /\ mem' = [mem EXCEPT ![v] = Error_Default(c)]
    /\ last' = [NoLast EXCEPT !.op = "Error()", !.self = v]
    /\ UNCHANGED <<heap, hnd, snap, illFormed>>

ConstructDetails(v, c, d) ==
    /\ ~Constructed(mem[v])
    /\ mem' = [mem EXCEPT ![v] = Error_Details(c, d)]
    /\ last' = [NoLast EXCEPT !.op = "Error(const details&)", !.self = v, !.a2 = d]
    /\ UNCHANGED <<heap, hnd, snap, illFormed>>

ConstructDetailsMove(v, c, d) ==
    /\ ~Constructed(mem[v])
    /\ mem' = [mem EXCEPT ![v] = Error_Details(c, d)]
    /\ last' = [NoLast EXCEPT !.op = "Error(details&&)", !.self = v, !.a2 = d]
    /\ UNCHANGED <<heap, hnd, snap, illFormed>>

ConstructTypeDetails(v, c, t, d) ==
    /\ ~Constructed(mem[v])
    /\ mem' = [mem EXCEPT ![v] = Error_TypeDetails(c, t, d)]
    /\ last' = [NoLast EXCEPT !.op = "Error(const type&, const details&)", !.self = v,
                              !.a1 = t, !.a2 = d]
    /\ UNCHANGED <<heap, hnd, snap, illFormed>>

ConstructTypeDetailsMove(v, c, t, d) ==
    /\ ~Constructed(mem[v])
    /\ mem' = [mem EXCEPT ![v] = Error_TypeDetails(c, t, d)]
    /\ last' = [NoLast EXCEPT !.op = "Error(type&&, details&&)", !.self = v,
                              !.a1 = t, !.a2 = d]
    /\ UNCHANGED <<heap, hnd, snap, illFormed>>

CopyConstruct(v, w) ==
    /\ ~Constructed(mem[v])
    /\ v # w
    /\ Constructed(mem[w])
    /\ mem' = [mem EXCEPT ![v] = Error_Copy(mem[w])]
    /\ last' = [NoLast EXCEPT !.op = "Error(const Error&)", !.self = v, !.pre = mem[w]]
    /\ UNCHANGED <<heap, hnd, snap, illFormed>>

\* operator=(const Error&), between two values of one class.
CopyAssign(v, w) ==
    /\ Constructed(mem[v])
    /\ Constructed(mem[w])
    /\ v # w
    /\ mem[v].cls = mem[w].cls
    /\ mem' = [mem EXCEPT ![v] = Error_Copy(mem[w])]
    /\ last' = [NoLast EXCEPT !.op = "operator=(const Error&)", !.self = v,
                              !.pre = mem[w], !.ret = ReturnThis(v)]
    /\ UNCHANGED <<heap, hnd, snap, illFormed>>

\* operator=(Error&&), from a temporary: e = Error(type, details).
MoveAssignTemporary(v, t, d) ==
    /\ Constructed(mem[v])
    /\ mem' = [mem EXCEPT ![v] = Error_Copy(Error_TypeDetails(mem[v].cls, t, d))]
    /\ last' = [NoLast EXCEPT !.op = "operator=(Error&&)", !.self = v, !.a1 = t, !.a2 = d,
                              !.pre = mem[v], !.ret = ReturnThis(v)]
    /\ UNCHANGED <<heap, hnd, snap, illFormed>>

\* The value leaves scope.
EndOfScope(v) ==
    /\ Constructed(mem[v])
    /\ mem' = [mem EXCEPT ![v] = NoObject]
    /\ last' = [NoLast EXCEPT !.op = "~Error()", !.self = v]
    /\ UNCHANGED <<heap, hnd, snap, illFormed>>

DoWithDetails(v, d) ==
    /\ Constructed(mem[v])
    /\ mem' = [mem EXCEPT ![v] = WithDetails(mem[v], d)]
    /\ last' = [NoLast EXCEPT !.op = "WithDetails(const&)", !.self = v, !.a1 = d,
                              !.pre = mem[v], !.ret = ReturnThis(v)]
    /\ UNCHANGED <<heap, hnd, snap, illFormed>>

DoWithDetailsMove(v, d) ==
    /\ Constructed(mem[v])
    /\ mem' = [mem EXCEPT ![v] = WithDetails(mem[v], d)]
    /\ last' = [NoLast EXCEPT !.op = "WithDetails(&&)", !.self = v, !.a1 = d,
                              !.pre = mem[v], !.ret = ReturnThis(v)]
    /\ UNCHANGED <<heap, hnd, snap, illFormed>>

DoWithInfo(v, i) ==
    /\ Constructed(mem[v])
    /\ mem' = [mem EXCEPT ![v] = WithInfo(mem[v], i)]
    /\ last' = [NoLast EXCEPT !.op = "WithInfo(const&)", !.self = v, !.a1 = i,
                              !.pre = mem[v], !.ret = ReturnThis(v)]
    /\ UNCHANGED <<heap, hnd, snap, illFormed>>

DoWithInfoMove(v, i) ==
    /\ Constructed(mem[v])
    /\ mem' = [mem EXCEPT ![v] = WithInfo(mem[v], i)]
    /\ last' = [NoLast EXCEPT !.op = "WithInfo(&&)", !.self = v, !.a1 = i,
                              !.pre = mem[v], !.ret = ReturnThis(v)]
    /\ UNCHANGED <<heap, hnd, snap, illFormed>>

(***************************************************************************)
(* The Error value on its own: two named values of class Error, every      *)
(* constructor, copy, assignment and mutator, over every string of Str.    *)
(***************************************************************************)
NextValue ==
    \/ \E v \in Vars : ConstructDefault(v, "Error")
    \/ \E v \in Vars, d \in Str : ConstructDetails(v, "Error", d)
    \/ \E v \in Vars, d \in Str : ConstructDetailsMove(v, "Error", d)
    \/ \E v \in Vars, t \in Str, d \in Str : ConstructTypeDetails(v, "Error", t, d)
    \/ \E v \in Vars, t \in Str, d \in Str : ConstructTypeDetailsMove(v, "Error", t, d)
    \/ \E v \in Vars, w \in Vars : CopyConstruct(v, w)
    \/ \E v \in Vars, w \in Vars : CopyAssign(v, w)
    \/ \E v \in Vars, t \in Str, d \in Str : MoveAssignTemporary(v, t, d)
    \/ \E v \in Vars : EndOfScope(v)
    \/ \E v \in Vars, d \in Str : DoWithDetails(v, d)
    \/ \E v \in Vars, d \in Str : DoWithDetailsMove(v, d)
    \/ \E v \in Vars, i \in Str : DoWithInfo(v, i)
    \/ \E v \in Vars, i \in Str : DoWithInfoMove(v, i)

SpecValue == Init /\ [][NextValue]_vars

(***************************************************************************)
(* WrappingError<T>: owns one T at its member _err and forwards to it.     *)
(***************************************************************************)
\* The adapter holding a reference to the caller's object ("T& _err").
MemberAddrOfCaller(p, src) == src

\* Where the adapter's T lives: "T _err" is a member, in the payload's own
\* storage, move-constructed from the constructor's argument.
MemberAddr(p, src) == HeapAddr(p)

Held(p) == mem[heap[p]._err]

WrappingError_GetClassId(p) == Error_GetClassId(Held(p))
\* The adapter's string conversion forwarding to the wrong accessor.
WrappingError_ToStringOfType(p) == Error_GetType(Held(p))

WrappingError_ToString(p) == Error_ToString(Held(p))
WrappingError_GetType(p) == Error_GetType(Held(p))
WrappingError_GetDetails(p) == Error_GetDetails(Held(p))
\* The adapter's GetInfo forwarding to GetDetails.
WrappingError_GetInfoOfDetails(p) == Error_GetDetails(Held(p))

WrappingError_GetInfo(p) == Error_GetInfo(Held(p))

(***************************************************************************)
(* ErrorWrapper: std::shared_ptr<IError> _ptr, and the five accessors      *)
(* through _ptr.get().  Calling through a null pointer, or through a       *)
(* pointer to a released payload, is undefined.                            *)
(***************************************************************************)
Dereferenceable(ptr) == ptr # Null /\ heap[ptr].alloc

ErrorWrapper_GetClassId(h) ==
    IF Dereferenceable(hnd[h]._ptr) THEN WrappingError_GetClassId(hnd[h]._ptr) ELSE Undefined.id

ErrorWrapper_ToString(h) ==
    IF Dereferenceable(hnd[h]._ptr) THEN WrappingError_ToString(hnd[h]._ptr) ELSE Undefined.str

ErrorWrapper_GetType(h) ==
    IF Dereferenceable(hnd[h]._ptr) THEN WrappingError_GetType(hnd[h]._ptr) ELSE Undefined.type

ErrorWrapper_GetDetails(h) ==
    IF Dereferenceable(hnd[h]._ptr) THEN WrappingError_GetDetails(hnd[h]._ptr) ELSE Undefined.details

ErrorWrapper_GetInfo(h) ==
    IF Dereferenceable(hnd[h]._ptr) THEN WrappingError_GetInfo(hnd[h]._ptr) ELSE Undefined.info

HandleAcc(h) ==
    [id |-> ErrorWrapper_GetClassId(h), str |-> ErrorWrapper_ToString(h),
     type |-> ErrorWrapper_GetType(h), details |-> ErrorWrapper_GetDetails(h),
     info |-> ErrorWrapper_GetInfo(h)]

Live(h) == hnd[h].st = "live"

\* The number of payloads allocated.
Allocated == Cardinality({p \in Payloads : heap[p].alloc})

\* std::optional<ErrorWrapper>
Optional_Of(h) == [has_value |-> TRUE, value |-> h]
Optional_Nullopt == [has_value |-> FALSE, value |-> Null]
NoError == Optional_Nullopt

(***************************************************************************)
(* ErrorWrapper(T t): the constructor template, constrained by             *)
(* ErrorConcept<T>.  The argument is taken by value (copied from an        *)
(* lvalue, moved from an rvalue) and moved into a new WrappingError<T>     *)
(* that make_shared allocates.  For a T the concept rejects, the call is   *)
(* ill-formed and nothing is built.                                        *)
(***************************************************************************)
Wrap(v, h, p, byMove, opname, has) ==
    /\ Constructed(mem[v])
    /\ hnd[h].st = "free"
    /\ ~heap[p].alloc
    /\ IF ErrorConcept(mem[v].cls)
       THEN /\ \E after \in (IF byMove THEN MovedFrom(mem[v]) ELSE {mem[v]}) :
                   mem' = [a \in Addrs |->
                            IF a = MemberAddr(p, v) THEN Error_Copy(mem[v])
                            ELSE IF a = v THEN after ELSE mem[a]]
            /\ heap' = [heap EXCEPT ![p] = [alloc |-> TRUE, _err |-> MemberAddr(p, v),
                                            use_count |-> 1, released |-> 0]]
            /\ hnd' = [hnd EXCEPT ![h] = [st |-> "live", _ptr |-> p, wasLast |-> FALSE,
                                          moved |-> FALSE]]
            /\ snap' = [snap EXCEPT ![h] = ValueAcc(mem[v])]
            /\ last' = [NoLast EXCEPT !.op = opname, !.self = v, !.pre = mem[v], !.h = h,
                                      !.has_value = has]
            /\ UNCHANGED illFormed
       ELSE /\ illFormed' = illFormed \cup {mem[v].cls}
            /\ last' = [NoLast EXCEPT !.op = "ill-formed", !.self = v, !.pre = mem[v]]
            /\ UNCHANGED <<mem, heap, hnd, snap>>

ErrorWrapperCtor(v, h, p) == Wrap(v, h, p, FALSE, "ErrorWrapper(T) from lvalue", FALSE)
ErrorWrapperCtorMove(v, h, p) == Wrap(v, h, p, TRUE, "ErrorWrapper(T) from rvalue", FALSE)

MakeOptionalError(v, h, p) ==
    Wrap(v, h, p, FALSE, "MakeOptionalError(const E&)", Optional_Of(h).has_value)
MakeOptionalErrorMove(v, h, p) ==
    Wrap(v, h, p, TRUE, "MakeOptionalError(E&&)", Optional_Of(h).has_value)

MakeError(v, h, p) == Wrap(v, h, p, FALSE, "MakeError(const E&)", FALSE)
MakeErrorMove(v, h, p) == Wrap(v, h, p, TRUE, "MakeError(E&&)", FALSE)

\* A function returns the NoError sentinel as its OptionalError.
ReturnNoError ==
    /\ last' = [NoLast EXCEPT !.op = "NoError", !.has_value = NoError.has_value]
    /\ UNCHANGED <<mem, heap, hnd, snap, illFormed>>

(***************************************************************************)
(* Copies and moves of an ErrorWrapper: the implicit copy and move         *)
(* constructors, which copy or move the shared_ptr.  The source is an      *)
(* object its holder keeps alive during the call, so it owns the payload   *)
(* throughout and the copy's atomic increment is one step.                 *)
(***************************************************************************)
\* shared_ptr's copy constructor: the new pointer is the source's.
SharedPtr_Copy(ptr) == ptr

\* A move that leaves the source pointing at the payload.
SharedPtr_MovedFromKept(ptr) == ptr

\* shared_ptr's move constructor leaves its source empty.
SharedPtr_MovedFrom(ptr) == Null

\* MakeError treating the wrapper as one more error value to erase: the result
\* points at another payload, an adapter around the wrapper.
MakeError_PointerToNewAdapter(ptr) == IF ptr = Null THEN Null ELSE (ptr % MaxPayloads) + 1

\* MakeError on an ErrorWrapper hands the wrapper itself to unexpected: the
\* result's pointer is the argument's, not a fresh payload's.
MakeError_Pointer(ptr) == ptr

CopyTo(src, dst, ptr, opname) ==
    /\ Live(src)
    /\ src # dst
    /\ hnd[dst].st = "free"
    /\ hnd' = [hnd EXCEPT ![dst] = [st |-> "live", _ptr |-> ptr, wasLast |-> FALSE,
                                    moved |-> hnd[src].moved]]
    /\ heap' = IF ptr = Null THEN heap
               ELSE [heap EXCEPT ![ptr].use_count = @ + 1]
    /\ snap' = [snap EXCEPT ![dst] = snap[src]]
    /\ last' = [NoLast EXCEPT !.op = opname, !.h = dst, !.src = src, !.p = hnd[src]._ptr,
                              !.acc = HandleAcc(src), !.allocated = Allocated]
    /\ UNCHANGED <<mem, illFormed>>

MoveTo(src, dst, ptr, opname) ==
    /\ Live(src)
    /\ src # dst
    /\ hnd[dst].st = "free"
    /\ hnd' = [hnd EXCEPT ![dst] = [st |-> "live", _ptr |-> ptr, wasLast |-> FALSE,
                                    moved |-> hnd[src].moved],
                          ![src]._ptr = SharedPtr_MovedFrom(hnd[src]._ptr),
                          ![src].moved = TRUE]
    /\ snap' = [snap EXCEPT ![dst] = snap[src]]
    /\ last' = [NoLast EXCEPT !.op = opname, !.h = dst, !.src = src, !.p = hnd[src]._ptr,
                              !.acc = HandleAcc(src), !.allocated = Allocated]
    /\ UNCHANGED <<mem, heap, illFormed>>

CopyHandle(src, dst) ==
    CopyTo(src, dst, SharedPtr_Copy(hnd[src]._ptr), "ErrorWrapper(const ErrorWrapper&)")
MoveHandle(src, dst) ==
    MoveTo(src, dst, SharedPtr_Copy(hnd[src]._ptr), "ErrorWrapper(ErrorWrapper&&)")

MakeResultError(src, dst) ==
    CopyTo(src, dst, SharedPtr_Copy(hnd[src]._ptr), "MakeResultError(const ErrorWrapper&)")
MakeResultErrorMove(src, dst) ==
    MoveTo(src, dst, SharedPtr_Copy(hnd[src]._ptr), "MakeResultError(ErrorWrapper&&)")

MakeErrorOfWrapper(src, dst) ==
    CopyTo(src, dst, MakeError_Pointer(SharedPtr_Copy(hnd[src]._ptr)),
           "MakeError(const ErrorWrapper&)")
MakeErrorOfWrapperMove(src, dst) ==
    MoveTo(src, dst, MakeError_Pointer(SharedPtr_Copy(hnd[src]._ptr)),
           "MakeError(ErrorWrapper&&)")

(***************************************************************************)
(* ~ErrorWrapper releases the shared_ptr in two steps another holder's     *)
(* operations can interleave with: the atomic decrement of the use count,  *)
(* and then, by the holder that brought it to zero, the release of the     *)
(* payload.                                                                *)
(***************************************************************************)
\* The last-owner test off by one.
SharedPtr_LastOwnerOffByOne(before) == before <= 2

\* Whether the decrement that found the count at `before` was the last one.
SharedPtr_LastOwner(before) == before = 1

DestroyBegin(h) ==
    /\ Live(h)
    /\ LET p == hnd[h]._ptr IN
        /\ hnd' = [hnd EXCEPT ![h].st = "dying",
                              ![h].wasLast = (p # Null /\ SharedPtr_LastOwner(heap[p].use_count))]
        /\ heap' = IF p = Null THEN heap ELSE [heap EXCEPT ![p].use_count = @ - 1]
    /\ last' = [NoLast EXCEPT !.op = "~ErrorWrapper: decrement", !.h = h, !.p = hnd[h]._ptr]
    /\ UNCHANGED <<mem, snap, illFormed>>

DestroyEnd(h) ==
    /\ hnd[h].st = "dying"
    /\ LET p == hnd[h]._ptr IN
        IF hnd[h].wasLast
        THEN /\ heap' = [heap EXCEPT ![p].alloc = FALSE,
                                     ![p].released = IF @ < 2 THEN @ + 1 ELSE @]
             /\ mem' = [mem EXCEPT ![HeapAddr(p)] = NoObject]
        ELSE UNCHANGED <<heap, mem>>
    /\ hnd' = [hnd EXCEPT ![h] = [st |-> "free", _ptr |-> Null, wasLast |-> FALSE,
                                  moved |-> FALSE]]
    /\ snap' = [snap EXCEPT ![h] = Undefined]
    /\ last' = [NoLast EXCEPT !.op = "~ErrorWrapper: done", !.h = h, !.p = hnd[h]._ptr]
    /\ UNCHANGED illFormed

(***************************************************************************)
(* Erasure: one named value of class Error over the strings of Types,      *)
(* Details and Infos, the wrapping constructor and factories,              *)
(* re-wrapping, and the caller's later mutation of the value it wrapped.   *)
(* Handles are not destroyed here; their lifetime is SpecOwn's subject.    *)
(***************************************************************************)
Next ==
    \/ ConstructDefault(E1, "Error")
    \/ \E t \in Types, d \in Details : ConstructTypeDetails(E1, "Error", t, d)
    \/ \E d \in Details : DoWithDetails(E1, d)
    \/ \E i \in Infos : DoWithInfo(E1, i)
    \/ \E t \in Types, d \in Details : MoveAssignTemporary(E1, t, d)
    \/ \E h \in ErasedHandles, p \in Erased : ErrorWrapperCtor(E1, h, p)
    \/ \E h \in ErasedHandles, p \in Erased : ErrorWrapperCtorMove(E1, h, p)
    \/ \E h \in ErasedHandles, p \in Erased : MakeOptionalError(E1, h, p)
    \/ \E h \in ErasedHandles, p \in Erased : MakeOptionalErrorMove(E1, h, p)
    \/ \E h \in ErasedHandles, p \in Erased : MakeError(E1, h, p)
    \/ \E h \in ErasedHandles, p \in Erased : MakeErrorMove(E1, h, p)
    \/ \E s \in ErasedHandles, h \in ErasedHandles : MakeErrorOfWrapper(s, h)
    \/ \E s \in ErasedHandles, h \in ErasedHandles : MakeErrorOfWrapperMove(s, h)
    \/ ReturnNoError

Spec == Init /\ [][Next]_vars

(***************************************************************************)
(* Type identity and acceptance: values of every class, wrapped.           *)
(***************************************************************************)
NextTag ==
    \/ \E c \in Classes : ConstructDefault(E1, c)
    \/ EndOfScope(E1)
    \/ \E h \in Handles, p \in Payloads : ErrorWrapperCtor(E1, h, p)
    \/ \E h \in Handles, p \in Payloads : ErrorWrapperCtorMove(E1, h, p)
    \/ \E h \in Handles, p \in Payloads : MakeError(E1, h, p)
    \/ \E h \in Handles, p \in Payloads : MakeOptionalError(E1, h, p)
    \/ \E h \in Handles : DestroyBegin(h)
    \/ \E h \in Handles : DestroyEnd(h)

SpecTag == Init /\ [][NextTag]_vars

(***************************************************************************)
(* Ownership: handles to one wrapped value are copied, moved, passed to    *)
(* the factories and destroyed by holders whose steps interleave.          *)
(***************************************************************************)
NextOwn ==
    \/ ConstructDetails(E1, "Error", "disk full")
    \/ \E h \in Handles, p \in Payloads : ErrorWrapperCtor(E1, h, p)
    \/ \E s \in Handles, h \in Handles : CopyHandle(s, h)
    \/ \E s \in Handles, h \in Handles : MoveHandle(s, h)
    \/ \E s \in Handles, h \in Handles : MakeResultError(s, h)
    \/ \E s \in Handles, h \in Handles : MakeResultErrorMove(s, h)
    \/ \E s \in Handles, h \in Handles : MakeErrorOfWrapper(s, h)
    \/ \E s \in Handles, h \in Handles : MakeErrorOfWrapperMove(s, h)
    \/ \E h \in Handles : DestroyBegin(h)
    \/ \E h \in Handles : DestroyEnd(h)

SpecOwn == Init /\ [][NextOwn]_vars

(***************************************************************************)
(* Properties.                                                             *)
(***************************************************************************)
WrapOps ==
    {"ErrorWrapper(T) from lvalue", "ErrorWrapper(T) from rvalue",
     "MakeOptionalError(const E&)", "MakeOptionalError(E&&)",
     "MakeError(const E&)", "MakeError(E&&)"}

RewrapOps == {"MakeError(const ErrorWrapper&)", "MakeError(ErrorWrapper&&)"}

HoldsPayload(h) == Live(h) /\ hnd[h]._ptr # Null

\* The concrete type of the value a handle's payload holds.
ConcreteType(h) == Held(hnd[h]._ptr).cls

\* C1: two handles' GetClassId() values are equal if and only if the values
\* they wrap have the same concrete type, for every pair of concrete types,
\* Error and the types that derive from it included.
C1_ClassIdEqualIffSameType ==
    \A g \in Handles, h \in Handles :
        (HoldsPayload(g) /\ HoldsPayload(h)) =>
            ((ErrorWrapper_GetClassId(g) = ErrorWrapper_GetClassId(h))
                <=> (ConcreteType(g) = ConcreteType(h)))

\* C9: ErrorWrapper construction and the factories accept every value whose
\* type derives from IError or exposes the five operations without deriving
\* from it: no construction from such a type is rejected by ErrorConcept.
C9_ConceptAcceptsNominalAndStructural ==
    \A c \in Classes :
        (derived_from(c, "IError") \/ HasFiveOperations(c)) => c \notin illFormed

DiskFull == WithInfo(WithDetails(Error_Default("Error"), "disk full"), "errno=28")

\* C3: the handle a wrapping constructor or factory builds from e returns,
\* for all five accessors, the values e returned when it was wrapped; for
\* Error().WithDetails("disk full").WithInfo("errno=28") these are details
\* "disk full", info "errno=28", type "" and display string "disk full".
C3_ErasurePassThrough ==
    /\ last.op \in WrapOps => HandleAcc(last.h) = ValueAcc(last.pre)
    /\ (last.op \in WrapOps /\ last.pre = DiskFull) =>
          /\ ErrorWrapper_GetDetails(last.h) = "disk full"
          /\ ErrorWrapper_GetInfo(last.h) = "errno=28"
          /\ ErrorWrapper_GetType(last.h) = ""
          /\ ErrorWrapper_ToString(last.h) = "disk full"
          /\ ErrorWrapper_GetClassId(last.h) = IdAddress("Error")

C3_Witness ==
    /\ last.op = "MakeError(const E&)"
    /\ last.pre = DiskFull
    /\ HoldsPayload(last.h)

ValueMutators == {"WithDetails(const&)", "WithInfo(const&)", "operator=(Error&&)"}

\* C5: once a handle has been built from e, no WithDetails, WithInfo or
\* assignment on e changes what any of the handle's five accessors returns.
C5_HandleImmutable ==
    last.op \in ValueMutators =>
        \A h \in Handles : HoldsPayload(h) => HandleAcc(h) = snap[h]

C5_Witness ==
    /\ last.op = "WithDetails(const&)"
    /\ \E h \in Handles :
          /\ HoldsPayload(h)
          /\ last.pre._details = snap[h].details
          /\ mem[E1]._details # snap[h].details
          /\ mem[E1]._devInfo # snap[h].info

\* C6: MakeOptionalError(e), from an lvalue or an rvalue, is populated and
\* its handle's string conversion is e's as it was before the call; the
\* NoError sentinel has no value.
C6_OptionalRoundTrip ==
    /\ last.op \in {"MakeOptionalError(const E&)", "MakeOptionalError(E&&)"} =>
          /\ last.has_value
          /\ HoldsPayload(last.h)
          /\ ErrorWrapper_ToString(last.h) = Error_ToString(last.pre)
    /\ last.op = "NoError" => ~last.has_value

C6_Witness ==
    /\ last.op = "MakeOptionalError(E&&)"
    /\ last.has_value
    /\ Error_ToString(last.pre) = "disk full"
    /\ Error_ToString(mem[E1]) = ""
    /\ last.pre._type = "io"

\* C7: after WithDetails(d) GetDetails() is d and GetType() and GetInfo() are
\* what they were; after WithInfo(i) GetInfo() is i and GetType() and
\* GetDetails() are what they were; both return the instance they were
\* called on.
C7_MutatorsFrame ==
    /\ last.op \in {"WithDetails(const&)", "WithDetails(&&)"} =>
          /\ Error_GetDetails(mem[last.self]) = last.a1
          /\ Error_GetType(mem[last.self]) = Error_GetType(last.pre)
          /\ Error_GetInfo(mem[last.self]) = Error_GetInfo(last.pre)
          /\ last.ret = last.self
    /\ last.op \in {"WithInfo(const&)", "WithInfo(&&)"} =>
          /\ Error_GetInfo(mem[last.self]) = last.a1
          /\ Error_GetType(mem[last.self]) = Error_GetType(last.pre)
          /\ Error_GetDetails(mem[last.self]) = Error_GetDetails(last.pre)
          /\ last.ret = last.self

C7_Witness ==
    /\ last.op = "WithDetails(&&)"
    /\ last.pre._details = "disk full"
    /\ last.a1 = "errno=28"
    /\ last.pre._type = "disk full"
    /\ last.pre._devInfo = "disk full"
    /\ Constructed(mem[E1]) /\ Constructed(mem[E2])

\* C8: Error(t, d), through either two-argument constructor, has GetType() t,
\* GetDetails() d and an empty debug info.
C8_ConstructorRoundTrip ==
    last.op \in {"Error(const type&, const details&)", "Error(type&&, details&&)"} =>
        /\ Error_GetType(mem[last.self]) = last.a1
        /\ Error_GetDetails(mem[last.self]) = last.a2
        /\ Error_GetInfo(mem[last.self]) = ""

C8_Witness ==
    /\ last.op = "Error(type&&, details&&)"
    /\ last.a1 = "errno=28"
    /\ last.a2 = "disk full"

\* The handles a payload still has: those not yet past their decrement.
Owners(p) == {h \in Handles : Live(h) /\ hnd[h]._ptr = p}

\* C4: under every interleaving of copies and destructions the payload is
\* alive, and every remaining handle's accessors return what they returned at
\* construction, while a handle to it exists; the payload is released once,
\* by the destruction of its last handle.
C4_SharedOwnership ==
    /\ \A h \in Handles : HoldsPayload(h) =>
          /\ heap[hnd[h]._ptr].alloc
          /\ heap[hnd[h]._ptr].released = 0
          /\ HandleAcc(h) = snap[h]
    /\ \A p \in Payloads :
          /\ heap[p].released <= 1
          /\ heap[p].alloc => heap[p].use_count = Cardinality(Owners(p))
          /\ (heap[p].alloc /\ Owners(p) = {}) =>
                \E h \in Handles : hnd[h].st = "dying" /\ hnd[h]._ptr = p /\ hnd[h].wasLast
          /\ Cardinality({h \in Handles : hnd[h].st = "dying" /\ hnd[h]._ptr = p
                                            /\ hnd[h].wasLast}) <= 1
    /\ \A h \in Handles : (hnd[h].st = "dying" /\ hnd[h].wasLast) =>
          (heap[hnd[h]._ptr].alloc /\ Owners(hnd[h]._ptr) = {})

\* A copy was made and the original destroyed: the copy still reads the value.
C4_Witness ==
    /\ last.op = "~ErrorWrapper: done"
    /\ last.p # Null
    /\ \E h \in Handles :
          /\ HoldsPayload(h)
          /\ hnd[h]._ptr = last.p
          /\ heap[last.p].use_count = 1
          /\ ErrorWrapper_GetDetails(h) = "disk full"

\* C10 as stated: every ErrorWrapper the caller can name holds a non-null
\* payload pointer, whatever copies, moves, destructions and factory calls
\* came before.
C10_NeverNull ==
    \A h \in Handles : Live(h) => hnd[h]._ptr # Null

\* C10 as amended: an ErrorWrapper's pointer is null exactly when the wrapper
\* was moved from (by the move constructor, or as the rvalue argument of
\* MakeError or MakeResultError) or was copied or moved from such a wrapper;
\* every other wrapper points at a live payload.
C10_NullExactlyAfterMove ==
    \A h \in Handles : Live(h) =>
        /\ (hnd[h]._ptr = Null) <=> hnd[h].moved
        /\ hnd[h]._ptr # Null => Dereferenceable(hnd[h]._ptr)

C10_Witness ==
    /\ last.op = "MakeResultError(ErrorWrapper&&)"
    /\ Live(last.src) /\ hnd[last.src]._ptr = Null /\ hnd[last.src].moved
    /\ HoldsPayload(last.h) /\ ~hnd[last.h].moved

====
